---- MODULE Spec2Model ----
(***************************************************************************)
(* A model of the big_complex crate: the arbitrary-precision integer       *)
(* wrapper BigInt (src/src/big_int.rs) and the integer complex number       *)
(* BigComplex built on it (src/src/big_complex.rs).                         *)
(*                                                                          *)
(* The library is single-threaded and side-effect free.  The state machine  *)
(* is a caller that invokes one public operation at a time on inputs drawn  *)
(* from bounded ranges, holds the inputs and the returned value, may feed   *)
(* the value to a follow-up call, and then drops it.                        *)
(* BigInt::sqrt is additionally stepped one loop iteration at a time, so    *)
(* that the positions inside its binary search are states of the model,     *)
(* and so is the halving loop of BigComplex::ln_approx.                     *)
(***************************************************************************)
EXTENDS Integers, Sequences, FiniteSets, TLC

VARIABLES
    op,     \* the operation called last ("none" before the first call)
    pc,     \* "idle", "sqrt_loop" while BigInt::sqrt's loop is running, or
            \* "ln_loop" while BigComplex::ln_approx's loop is running
    self,   \* BigInt receiver of the call
    arg,    \* BigInt / u32 / i32 / &str argument of the call
    z,      \* BigComplex receiver of the call
    w,      \* BigComplex argument of the call
    low,    \* BigInt::sqrt local
    high,   \* BigInt::sqrt local
    approx, \* BigComplex::ln_approx local
    temp,   \* BigComplex::ln_approx local
    rounds, \* the number of times the body of ln_approx's loop has run
    ret     \* the value returned by the call

vars == <<op, pc, self, arg, z, w, low, high, approx, temp, rounds, ret>>

(***************************************************************************)
(* Bounds of the model.                                                     *)
(***************************************************************************)
MaxSqrt == 150        \* largest receiver of the stepped sqrt
MaxNeg == 4           \* magnitude of the most negative BigInt receiver
PrimeMax == 10000     \* largest receiver of is_prime
NextPrimeMax == 130   \* largest receiver of next_prime
MaxFact == 9          \* largest receiver of factorial
MaxDiv == 9           \* magnitude bound of division / remainder operands
MaxC == 3             \* magnitude bound of a complex component
MaxK == 4             \* magnitude bound of a scale factor / exact divisor
PowC == 2             \* magnitude bound of a component of pow's receiver
MaxExp == 7           \* largest exponent of pow
MaxTheta == 9         \* magnitude bound of from_polar's angle code
MaxRootN == 3         \* largest n of nth_root
MaxLn == 40           \* largest real part of ln_approx's receiver
MaxExpArg == 6        \* magnitude bound of the real part of exp_approx's receiver
MaxShow == 12         \* magnitude bound of a displayed component
MaxLen == 3           \* longest string given to from_string
MaxBitsIn == 300      \* largest receiver of the bit-level operations

(***************************************************************************)
(* Option<T> and an aborted (panicked) call.                                *)
(***************************************************************************)
None == [tag |-> "None"]
Some(v) == [tag |-> "Some", val |-> v]
Panic == [tag |-> "Panic"]
Pending == [tag |-> "Pending"]

Abs(x) == IF x < 0 THEN -x ELSE x

(***************************************************************************)
(* BigInt arithmetic.  The wrapper delegates to num_bigint, whose Div and   *)
(* Rem divide the magnitudes; the quotient takes the product of the signs   *)
(* and the remainder the sign of the dividend.  Both panic on a zero        *)
(* divisor; the operators below are applied to non-zero divisors only.      *)
(***************************************************************************)
\* Variant of BigInt_div that rounds the quotient toward minus infinity.
DivFloor(a, b) ==
    LET q == Abs(a) \div Abs(b)
        exact == (Abs(a) % Abs(b)) = 0
    IN  IF (a < 0) = (b < 0) THEN q
        ELSE IF exact THEN -q ELSE -(q + 1)

BigInt_div(a, b) ==
    LET q == Abs(a) \div Abs(b)
    IN  IF (a < 0) = (b < 0) THEN q ELSE -q

BigInt_rem(a, b) ==
    LET r == Abs(a) % Abs(b)
    IN  IF a < 0 THEN -r ELSE r

(***************************************************************************)
(* BigInt::sqrt: binary search over [0, self].                              *)
(***************************************************************************)
sqrt_mid(lo, hi) == BigInt_div(lo + hi, 2)

\* Variant of sqrt_step that returns low instead of high when the loop ends.
sqrt_step_returns_low(n, lo, hi) ==
    IF lo <= hi
    THEN LET mid == sqrt_mid(lo, hi)
             mid_squared == mid * mid
         IN  IF mid_squared = n
             THEN [done |-> TRUE, ret |-> Some(mid), low |-> lo, high |-> hi]
             ELSE IF mid_squared < n
             THEN [done |-> FALSE, ret |-> Pending, low |-> mid + 1, high |-> hi]
             ELSE [done |-> FALSE, ret |-> Pending, low |-> lo, high |-> mid - 1]
    ELSE [done |-> TRUE, ret |-> Some(lo), low |-> lo, high |-> hi]

\* Variant of sqrt_step that lowers high to mid - 2 on a too-large mid.
sqrt_step_lowers_high_by_two(n, lo, hi) ==
    IF lo <= hi
    THEN LET mid == sqrt_mid(lo, hi)
             mid_squared == mid * mid
         IN  IF mid_squared = n
             THEN [done |-> TRUE, ret |-> Some(mid), low |-> lo, high |-> hi]
             ELSE IF mid_squared < n
             THEN [done |-> FALSE, ret |-> Pending, low |-> mid + 1, high |-> hi]
             ELSE [done |-> FALSE, ret |-> Pending, low |-> lo, high |-> mid - 2]
    ELSE [done |-> TRUE, ret |-> Some(hi), low |-> lo, high |-> hi]

\* One evaluation of the loop condition and, if it holds, one iteration.
sqrt_step(n, lo, hi) ==
    IF lo <= hi
    THEN LET mid == sqrt_mid(lo, hi)
             mid_squared == mid * mid
         IN  IF mid_squared = n
             THEN [done |-> TRUE, ret |-> Some(mid), low |-> lo, high |-> hi]
             ELSE IF mid_squared < n
             THEN [done |-> FALSE, ret |-> Pending, low |-> mid + 1, high |-> hi]
             ELSE [done |-> FALSE, ret |-> Pending, low |-> lo, high |-> mid - 1]
    ELSE [done |-> TRUE, ret |-> Some(hi), low |-> lo, high |-> hi]

RECURSIVE sqrt_loop(_, _, _)
sqrt_loop(n, lo, hi) ==
    LET s == sqrt_step(n, lo, hi)
    IN  IF s.done THEN s.ret ELSE sqrt_loop(n, s.low, s.high)

BigInt_sqrt(n) == IF n < 0 THEN None ELSE sqrt_loop(n, 0, n)

(***************************************************************************)
(* BigInt::factorial: iterative accumulation of 1 * 2 * ... * self.         *)
(***************************************************************************)
RECURSIVE factorial_loop(_, _, _)
factorial_loop(n, result, current) ==
    IF current <= n
    THEN factorial_loop(n, result * current, current + 1)
    ELSE result

RECURSIVE factorial_loop_stops_early(_, _, _)
factorial_loop_stops_early(n, result, current) ==
    IF current < n
    THEN factorial_loop_stops_early(n, result * current, current + 1)
    ELSE result

BigInt_factorial_stops_early(n) ==
    IF n < 0 THEN None ELSE Some(factorial_loop_stops_early(n, 1, 1))

BigInt_factorial(n) ==
    IF n < 0 THEN None ELSE Some(factorial_loop(n, 1, 1))

(***************************************************************************)
(* BigInt::is_prime: trial division by the odd numbers up to sqrt(self).    *)
(***************************************************************************)
unwrap_or_zero(o) == IF o.tag = "Some" THEN o.val ELSE 0

RECURSIVE is_prime_loop(_, _, _)
is_prime_loop(n, sqrt_n, i) ==
    IF i <= sqrt_n
    THEN IF BigInt_rem(n, i) = 0 THEN FALSE ELSE is_prime_loop(n, sqrt_n, i + 2)
    ELSE TRUE

RECURSIVE is_prime_loop_below_sqrt(_, _, _)
is_prime_loop_below_sqrt(n, sqrt_n, i) ==
    IF i < sqrt_n
    THEN IF BigInt_rem(n, i) = 0 THEN FALSE
         ELSE is_prime_loop_below_sqrt(n, sqrt_n, i + 2)
    ELSE TRUE

BigInt_is_prime_below_sqrt(n) ==
    IF n <= 1 THEN FALSE
    ELSE IF n = 2 THEN TRUE
    ELSE IF BigInt_rem(n, 2) = 0 THEN FALSE
    ELSE is_prime_loop_below_sqrt(n, unwrap_or_zero(BigInt_sqrt(n)), 3)

BigInt_is_prime(n) ==
    IF n <= 1 THEN FALSE
    ELSE IF n = 2 THEN TRUE
    ELSE IF BigInt_rem(n, 2) = 0 THEN FALSE
    ELSE is_prime_loop(n, unwrap_or_zero(BigInt_sqrt(n)), 3)

(***************************************************************************)
(* BigInt::next_prime: first candidate, then steps of 2 until prime.        *)
(***************************************************************************)
RECURSIVE next_prime_loop(_)
next_prime_loop(candidate) ==
    IF ~BigInt_is_prime(candidate)
    THEN next_prime_loop(candidate + 2)
    ELSE candidate

BigInt_next_prime_even_skips(n) ==
    next_prime_loop(IF n <= 2 THEN 2
                    ELSE IF BigInt_rem(n, 2) = 0 THEN n + 3
                    ELSE n + 2)

BigInt_next_prime(n) ==
    next_prime_loop(IF n <= 2 THEN 2
                    ELSE IF BigInt_rem(n, 2) = 0 THEN n + 1
                    ELSE n + 2)

(***************************************************************************)
(* BigComplex: a pair (real, imag) of BigInt.                               *)
(***************************************************************************)
BigComplex_new(re, im) == [real |-> re, imag |-> im]

BigComplex_zero == BigComplex_new(0, 0)

BigComplex_one == BigComplex_new(1, 0)

BigComplex_is_zero(a) == a.real = 0 /\ a.imag = 0

conjugate_negates_real(a) == BigComplex_new(-a.real, a.imag)

BigComplex_conjugate(a) == BigComplex_new(a.real, -a.imag)

BigComplex_magnitude_squared(a) == a.real * a.real + a.imag * a.imag

scale_real_only(a, factor) == BigComplex_new(a.real * factor, a.imag)

BigComplex_scale(a, factor) == BigComplex_new(a.real * factor, a.imag * factor)

\* Variant of Mul whose real part adds the product of the imaginary parts.
mul_adds_imaginary_product(a, b) ==
    LET re == a.real * b.real + a.imag * b.imag
        im == a.real * b.imag + a.imag * b.real
    IN  BigComplex_new(re, im)

\* impl Mul for BigComplex (by value)
BigComplex_mul(a, b) ==
    LET re == a.real * b.real - a.imag * b.imag
        im == a.real * b.imag + a.imag * b.real
    IN  BigComplex_new(re, im)

\* impl Mul for &BigComplex (by reference)
BigComplex_mul_ref(a, b) ==
    LET re == a.real * b.real - a.imag * b.imag
        im == a.real * b.imag + a.imag * b.real
    IN  BigComplex_new(re, im)

div_checks_real_only(a, b) ==
    LET denominator == b.real * b.real + b.imag * b.imag
    IN  IF b.real = 0 THEN Panic
        ELSE BigComplex_new(
                 BigInt_div(a.real * b.real + a.imag * b.imag, denominator),
                 BigInt_div(a.imag * b.real - a.real * b.imag, denominator))

\* impl Div for BigComplex (by value)
BigComplex_div(a, b) ==
    LET denominator == b.real * b.real + b.imag * b.imag
    IN  IF denominator = 0 THEN Panic
        ELSE BigComplex_new(
                 BigInt_div(a.real * b.real + a.imag * b.imag, denominator),
                 BigInt_div(a.imag * b.real - a.real * b.imag, denominator))

\* impl Div for &BigComplex (by reference)
BigComplex_div_ref(a, b) ==
    LET denominator == b.real * b.real + b.imag * b.imag
    IN  IF denominator = 0 THEN Panic
        ELSE BigComplex_new(
                 BigInt_div(a.real * b.real + a.imag * b.imag, denominator),
                 BigInt_div(a.imag * b.real - a.real * b.imag, denominator))

(***************************************************************************)
(* BigComplex::div_exact: component-wise division by a BigInt that          *)
(* succeeds only when both remainders are zero.                             *)
(***************************************************************************)
div_exact_needs_one_remainder_zero(a, divisor) ==
    IF divisor = 0 THEN None
    ELSE LET real_rem == BigInt_rem(a.real, divisor)
             imag_rem == BigInt_rem(a.imag, divisor)
         IN  IF real_rem # 0 /\ imag_rem # 0 THEN None
             ELSE Some(BigComplex_new(BigInt_div(a.real, divisor),
                                      BigInt_div(a.imag, divisor)))

BigComplex_div_exact(a, divisor) ==
    IF divisor = 0 THEN None
    ELSE LET real_rem == BigInt_rem(a.real, divisor)
             imag_rem == BigInt_rem(a.imag, divisor)
         IN  IF real_rem # 0 \/ imag_rem # 0 THEN None
             ELSE Some(BigComplex_new(BigInt_div(a.real, divisor),
                                      BigInt_div(a.imag, divisor)))

(***************************************************************************)
(* BigComplex::pow: square-and-multiply on exp - 1, starting from self.     *)
(***************************************************************************)
RECURSIVE pow_loop(_, _, _)
pow_loop(result, current, power) ==
    IF power > 0
    THEN pow_loop(IF power % 2 = 1 THEN BigComplex_mul(result, current) ELSE result,
                  BigComplex_mul(current, current),
                  power \div 2)
    ELSE result

pow_from_full_exponent(a, exp) ==
    IF exp = 0 THEN BigComplex_one ELSE pow_loop(a, a, exp)

BigComplex_pow(a, exp) ==
    IF exp = 0 THEN BigComplex_one ELSE pow_loop(a, a, exp - 1)

(***************************************************************************)
(* BigComplex::rotate_90 / rotate_180 / rotate_270: component swaps and     *)
(* negations.                                                               *)
(***************************************************************************)
rotate_90_clockwise(a) == BigComplex_new(a.imag, -a.real)

BigComplex_rotate_90(a) == BigComplex_new(-a.imag, a.real)

BigComplex_rotate_180(a) == BigComplex_new(-a.real, -a.imag)

BigComplex_rotate_270(a) == BigComplex_new(a.imag, -a.real)

(***************************************************************************)
(* BigComplex::from_polar: the i32 angle code is reduced with Rust's `%`,   *)
(* whose result takes the sign of the dividend; the match has arms for      *)
(* 0, 1, 2, 3 and an unreachable!() arm for every other value.              *)
(***************************************************************************)
i32_rem(a, b) ==
    LET r == Abs(a) % Abs(b)
    IN  IF a < 0 THEN -r ELSE r

BigComplex_from_polar(r, theta_approx) ==
    LET code == i32_rem(theta_approx, 4)
    IN  CASE code = 0 -> BigComplex_new(r, 0)
          [] code = 1 -> BigComplex_new(0, r)
          [] code = 2 -> BigComplex_new(-r, 0)
          [] code = 3 -> BigComplex_new(0, -r)
          [] OTHER -> Panic

(***************************************************************************)
(* BigComplex::arg_quadrant: None for zero, otherwise a match on            *)
(* (real.is_positive(), imag.is_positive()).                                *)
(***************************************************************************)
\* Variant of is_positive that holds for zero.
is_positive_or_zero(n) == n >= 0

BigInt_is_positive(n) == n > 0

arg_quadrant_swaps_2_and_4(a) ==
    IF BigComplex_is_zero(a) THEN None
    ELSE LET re_pos == BigInt_is_positive(a.real)
             im_pos == BigInt_is_positive(a.imag)
         IN  IF re_pos /\ im_pos THEN Some(0)
             ELSE IF ~re_pos /\ im_pos THEN Some(3)
             ELSE IF ~re_pos /\ ~im_pos THEN Some(2)
             ELSE Some(1)

BigComplex_arg_quadrant(a) ==
    IF BigComplex_is_zero(a) THEN None
    ELSE LET re_pos == BigInt_is_positive(a.real)
             im_pos == BigInt_is_positive(a.imag)
         IN  IF re_pos /\ im_pos THEN Some(0)
             ELSE IF ~re_pos /\ im_pos THEN Some(1)
             ELSE IF ~re_pos /\ ~im_pos THEN Some(2)
             ELSE Some(3)

(***************************************************************************)
(* BigComplex::nth_root: a Vec of roots, exact only in a few cases.         *)
(***************************************************************************)
BigComplex_is_real(a) == a.imag = 0

\* Variant of nth_root whose n = 2 branches do not test is_real().
nth_root_ignores_imag(a, n) ==
    IF n = 0 THEN << >>
    ELSE IF BigComplex_is_zero(a) THEN <<BigComplex_zero>>
    ELSE IF n = 1 THEN <<a>>
    ELSE IF n = 2 /\ BigInt_is_positive(a.real)
    THEN LET sqrt_real == unwrap_or_zero(BigInt_sqrt(a.real))
         IN  <<BigComplex_new(sqrt_real, 0), BigComplex_new(-sqrt_real, 0)>>
    ELSE IF n = 2 /\ a.real < 0
    THEN LET sqrt_abs == unwrap_or_zero(BigInt_sqrt(-a.real))
         IN  <<BigComplex_new(0, sqrt_abs), BigComplex_new(0, -sqrt_abs)>>
    ELSE <<BigComplex_new(1, 0)>>

\* Variant of nth_root that tests is_zero() before n == 0.
nth_root_tests_zero_first(a, n) ==
    IF BigComplex_is_zero(a) THEN <<BigComplex_zero>>
    ELSE IF n = 0 THEN << >>
    ELSE IF n = 1 THEN <<a>>
    ELSE IF n = 2 /\ BigComplex_is_real(a) /\ BigInt_is_positive(a.real)
    THEN LET sqrt_real == unwrap_or_zero(BigInt_sqrt(a.real))
         IN  <<BigComplex_new(sqrt_real, 0), BigComplex_new(-sqrt_real, 0)>>
    ELSE IF n = 2 /\ BigComplex_is_real(a) /\ a.real < 0
    THEN LET sqrt_abs == unwrap_or_zero(BigInt_sqrt(-a.real))
         IN  <<BigComplex_new(0, sqrt_abs), BigComplex_new(0, -sqrt_abs)>>
    ELSE <<BigComplex_new(1, 0)>>

\* The n = 2 branch also computes _mag = magnitude_squared().sqrt(), which
\* is never used and cannot abort (the squared magnitude is not negative).
BigComplex_nth_root(a, n) ==
    IF n = 0 THEN << >>
    ELSE IF BigComplex_is_zero(a) THEN <<BigComplex_zero>>
    ELSE IF n = 1 THEN <<a>>
    ELSE IF n = 2 /\ BigComplex_is_real(a) /\ BigInt_is_positive(a.real)
    THEN LET sqrt_real == unwrap_or_zero(BigInt_sqrt(a.real))
         IN  <<BigComplex_new(sqrt_real, 0), BigComplex_new(-sqrt_real, 0)>>
    ELSE IF n = 2 /\ BigComplex_is_real(a) /\ a.real < 0
    THEN LET sqrt_abs == unwrap_or_zero(BigInt_sqrt(-a.real))
         IN  <<BigComplex_new(0, sqrt_abs), BigComplex_new(0, -sqrt_abs)>>
    ELSE <<BigComplex_new(1, 0)>>

(***************************************************************************)
(* BigComplex::ln_approx: counts halvings of a positive real input.         *)
(***************************************************************************)
\* Variant of the loop that stops as soon as temp <= 2.
RECURSIVE ln_loop_stops_at_two(_, _)
ln_loop_stops_at_two(acc, t) ==
    IF t > 2
    THEN ln_loop_stops_at_two(acc + 1, BigInt_div(t, 2))
    ELSE acc

RECURSIVE ln_loop(_, _)
ln_loop(acc, t) ==
    IF t > 1
    THEN ln_loop(acc + 1, BigInt_div(t, 2))
    ELSE acc

RECURSIVE ln_loop_until_zero(_, _)
ln_loop_until_zero(acc, t) ==
    IF t >= 1
    THEN ln_loop_until_zero(acc + 1, BigInt_div(t, 2))
    ELSE acc

\* Variant of ln_approx whose loop runs while temp >= 1.
ln_approx_until_zero(a) ==
    IF BigComplex_is_zero(a) THEN None
    ELSE IF BigComplex_is_real(a) /\ BigInt_is_positive(a.real)
    THEN IF a.real = 1 THEN Some(BigComplex_zero)
         ELSE Some(BigComplex_new(ln_loop_until_zero(0, a.real), 0))
    ELSE Some(BigComplex_new(0, 1))

BigComplex_ln_approx(a) ==
    IF BigComplex_is_zero(a) THEN None
    ELSE IF BigComplex_is_real(a) /\ BigInt_is_positive(a.real)
    THEN IF a.real = 1 THEN Some(BigComplex_zero)
         ELSE Some(BigComplex_new(ln_loop(0, a.real), 0))
    ELSE Some(BigComplex_new(0, 1))

(***************************************************************************)
(* BigComplex::exp_approx: up to ExpTerms terms of an integer Taylor        *)
(* series for a real input.  Each term is term * self / (i + 0i), computed  *)
(* with the complex Mul and Div.  The loop is modelled with the number of   *)
(* rounds it has run, so that a call yields its value and its rounds.       *)
(***************************************************************************)
ExpTerms == 10

\* impl Add for BigComplex (by value)
BigComplex_add(a, b) == BigComplex_new(a.real + b.real, a.imag + b.imag)

RECURSIVE exp_loop(_, _, _, _, _)
exp_loop(result, term, i, a, last) ==
    IF i > last THEN [value |-> result, rounds |-> i - 1]
    ELSE LET next_term == BigComplex_div(BigComplex_mul(term, a), BigComplex_new(i, 0))
         IN  IF next_term = Panic THEN [value |-> Panic, rounds |-> i]
             ELSE LET sum == BigComplex_add(result, next_term)
                  IN  IF BigComplex_magnitude_squared(next_term) < 1
                      THEN [value |-> sum, rounds |-> i]
                      ELSE exp_loop(sum, next_term, i + 1, a, last)

\* Variant of exp_approx whose range is 1..ExpTerms exclusive.
exp_approx_exclusive_range(a) ==
    IF BigComplex_is_zero(a) THEN [value |-> BigComplex_one, rounds |-> 0]
    ELSE IF BigComplex_is_real(a)
    THEN IF a.real = 0 THEN [value |-> BigComplex_one, rounds |-> 0]
         ELSE exp_loop(BigComplex_one, BigComplex_one, 1, a, ExpTerms - 1)
    ELSE [value |-> BigComplex_new(1, 1), rounds |-> 0]

BigComplex_exp_approx(a) ==
    IF BigComplex_is_zero(a) THEN [value |-> BigComplex_one, rounds |-> 0]
    ELSE IF BigComplex_is_real(a)
    THEN IF a.real = 0 THEN [value |-> BigComplex_one, rounds |-> 0]
         ELSE exp_loop(BigComplex_one, BigComplex_one, 1, a, ExpTerms)
    ELSE [value |-> BigComplex_new(1, 1), rounds |-> 0]

(***************************************************************************)
(* Text.  A string is a sequence of one-character strings.                  *)
(***************************************************************************)
DigitChars == <<"0", "1", "2", "3", "4", "5", "6", "7", "8", "9">>

IsDigit(c) == \E d \in 1..Len(DigitChars) : DigitChars[d] = c

DigitValue(c) == (CHOOSE d \in 1..Len(DigitChars) : DigitChars[d] = c) - 1

\* The decimal digits of a magnitude, most significant first.
RECURSIVE magnitude_to_string(_)
magnitude_to_string(m) ==
    IF m < Len(DigitChars)
    THEN <<DigitChars[m + 1]>>
    ELSE magnitude_to_string(m \div Len(DigitChars))
             \o <<DigitChars[(m % Len(DigitChars)) + 1]>>

\* impl fmt::Display for BigInt: the decimal form of the inner value.
BigInt_to_string(n) ==
    IF n < 0 THEN <<"-">> \o magnitude_to_string(-n) ELSE magnitude_to_string(n)

\* Variant of Display that writes "+" before every imaginary part.
to_string_always_plus(a) ==
    IF a.imag = 0 THEN BigInt_to_string(a.real)
    ELSE IF a.real = 0
    THEN IF a.imag = 1 THEN <<"i">>
         ELSE IF a.imag = -1 THEN <<"-", "i">>
         ELSE BigInt_to_string(a.imag) \o <<"i">>
    ELSE BigInt_to_string(a.real) \o <<"+">> \o BigInt_to_string(a.imag) \o <<"i">>

\* impl fmt::Display for BigComplex
BigComplex_to_string(a) ==
    IF a.imag = 0 THEN BigInt_to_string(a.real)
    ELSE IF a.real = 0
    THEN IF a.imag = 1 THEN <<"i">>
         ELSE IF a.imag = -1 THEN <<"-", "i">>
         ELSE BigInt_to_string(a.imag) \o <<"i">>
    ELSE LET sign == IF BigInt_is_positive(a.imag) THEN <<"+">> ELSE << >>
         IN  BigInt_to_string(a.real) \o sign \o BigInt_to_string(a.imag) \o <<"i">>

(***************************************************************************)
(* BigInt::from_string: NumBigInt::parse_bytes(s.as_bytes(), 10).           *)
(* num_bigint parses a BigInt by taking one leading '-' (kept when a '+'    *)
(* follows it) and handing the rest to the unsigned parser, which takes     *)
(* one leading '+' (kept when another '+' follows), rejects the empty       *)
(* string and a leading '_', skips every later '_' and rejects every        *)
(* character that is not a digit of the radix.                              *)
(***************************************************************************)
StartsWith(s, c) == Len(s) >= 1 /\ s[1] = c

RECURSIVE digits_to_magnitude(_, _)
digits_to_magnitude(s, acc) ==
    IF s = << >> THEN Some(acc)
    ELSE IF Head(s) = "_" THEN digits_to_magnitude(Tail(s), acc)
    ELSE IF IsDigit(Head(s))
    THEN digits_to_magnitude(Tail(s), acc * Len(DigitChars) + DigitValue(Head(s)))
    ELSE None

BigUint_from_str_radix(s) ==
    LET body == IF StartsWith(s, "+") /\ ~StartsWith(Tail(s), "+") THEN Tail(s) ELSE s
    IN  IF body = << >> THEN None
        ELSE IF StartsWith(body, "_") THEN None
        ELSE digits_to_magnitude(body, 0)

BigInt_from_string(s) ==
    LET negative == StartsWith(s, "-")
        rest == IF negative /\ ~StartsWith(Tail(s), "+") THEN Tail(s) ELSE s
        m == BigUint_from_str_radix(rest)
    IN  IF m = None THEN None
        ELSE IF negative THEN Some(-m.val) ELSE m

(***************************************************************************)
(* Bit-level operations of BigInt.                                          *)
(***************************************************************************)
\* BigInt::pow: the base multiplied exp times.
RECURSIVE BigInt_pow(_, _)
BigInt_pow(base, exp) == IF exp = 0 THEN 1 ELSE base * BigInt_pow(base, exp - 1)

\* inner.bits(): the number of bits of the magnitude.
RECURSIVE bits(_)
bits(m) == IF m = 0 THEN 0 ELSE 1 + bits(m \div 2)

BigInt_bit_length(v) == IF v = 0 THEN 0 ELSE bits(Abs(v))

\* The number of values of a u8.
ByteValues == 256

\* to_bytes_be: the bytes of the magnitude, most significant first; zero is
\* the single byte 0.
RECURSIVE magnitude_to_bytes_be(_)
magnitude_to_bytes_be(m) ==
    IF m < ByteValues THEN <<m>>
    ELSE magnitude_to_bytes_be(m \div ByteValues) \o <<m % ByteValues>>

BigInt_to_bytes_be(v) == magnitude_to_bytes_be(Abs(v))

\* u8::count_ones
RECURSIVE u8_count_ones(_)
u8_count_ones(b) == IF b = 0 THEN 0 ELSE (b % 2) + u8_count_ones(b \div 2)

RECURSIVE sum_count_ones(_)
sum_count_ones(bytes) ==
    IF bytes = << >> THEN 0
    ELSE u8_count_ones(Head(bytes)) + sum_count_ones(Tail(bytes))

\* Variant of count_ones that counts the bits of a negative value's magnitude.
count_ones_of_magnitude(v) == sum_count_ones(BigInt_to_bytes_be(v))

BigInt_count_ones(v) ==
    IF v < 0 THEN 0 ELSE sum_count_ones(BigInt_to_bytes_be(v))

BigInt_is_power_of_two(v) ==
    IF v <= 0 THEN FALSE ELSE BigInt_count_ones(v) = 1

\* u8::trailing_zeros of a non-zero byte
RECURSIVE u8_trailing_zeros(_)
u8_trailing_zeros(b) == IF b % 2 = 1 THEN 0 ELSE 1 + u8_trailing_zeros(b \div 2)

\* for &byte in bytes.iter().rev(): zero bytes add 8, the first non-zero
\* byte adds its own trailing zeros and ends the loop.
RECURSIVE trailing_zeros_loop(_, _)
trailing_zeros_loop(bytes, zeros) ==
    IF bytes = << >> THEN zeros
    ELSE LET byte == bytes[Len(bytes)]
         IN  IF byte = 0
             THEN trailing_zeros_loop(SubSeq(bytes, 1, Len(bytes) - 1), zeros + 8)
             ELSE zeros + u8_trailing_zeros(byte)

BigInt_trailing_zeros(v) ==
    IF v = 0 THEN None ELSE Some(trailing_zeros_loop(BigInt_to_bytes_be(v), 0))

\* Variant of next_power_of_two without the test for an exact power of two.
next_power_of_two_without_exact_test(v) ==
    IF v <= 1 THEN 1 ELSE BigInt_pow(2, BigInt_bit_length(v))

BigInt_next_power_of_two(v) ==
    IF v <= 1 THEN 1
    ELSE LET bit_len == BigInt_bit_length(v)
         IN  IF BigInt_is_power_of_two(v) THEN v
             ELSE BigInt_pow(2, bit_len)

(***************************************************************************)
(* The caller: inputs and the calls it makes.                               *)
(***************************************************************************)
ComplexRange(c) == [real : (-c)..c, imag : (-c)..c]

\* The characters strings given to from_string are made of.
InputChars == {"-", "+", "_", "0", "7", "a", " "}

Returned(name, s, a, zz, ww, r) ==
    /\ op' = name
    /\ pc' = "idle"
    /\ self' = s
    /\ arg' = a
    /\ z' = zz
    /\ w' = ww
    /\ low' = 0
    /\ high' = 0
    /\ approx' = 0
    /\ temp' = 0
    /\ rounds' = 0
    /\ ret' = r

Init ==
    /\ op = "none"
    /\ pc = "idle"
    /\ self = 0
    /\ arg = 0
    /\ z = BigComplex_zero
    /\ w = BigComplex_zero
    /\ low = 0
    /\ high = 0
    /\ approx = 0
    /\ temp = 0
    /\ rounds = 0
    /\ ret = Pending

\* n.sqrt(): entry of the function up to the first evaluation of the loop
\* condition.
CallSqrt ==
    /\ op = "none"
    /\ \E n \in (-MaxNeg)..MaxSqrt :
        IF n < 0
        THEN Returned("sqrt", n, 0, BigComplex_zero, BigComplex_zero, None)
        ELSE /\ op' = "sqrt"
             /\ pc' = "sqrt_loop"
             /\ self' = n
             /\ arg' = 0
             /\ z' = BigComplex_zero
             /\ w' = BigComplex_zero
             /\ low' = 0
             /\ high' = n
             /\ approx' = 0
             /\ temp' = 0
             /\ rounds' = 0
             /\ ret' = Pending

\* One evaluation of `low <= high` and the iteration or the return after it.
SqrtStep ==
    /\ pc = "sqrt_loop"
    /\ LET s == sqrt_step(self, low, high)
       IN  /\ low' = s.low
           /\ high' = s.high
           /\ ret' = s.ret
           /\ pc' = IF s.done THEN "idle" ELSE "sqrt_loop"
    /\ UNCHANGED <<op, self, arg, z, w, approx, temp, rounds>>

CallIsPrime ==
    /\ op = "none"
    /\ \E n \in (-MaxNeg)..PrimeMax :
        Returned("is_prime", n, 0, BigComplex_zero, BigComplex_zero,
                 BigInt_is_prime(n))

CallNextPrime ==
    /\ op = "none"
    /\ \E n \in (-MaxNeg)..NextPrimeMax :
        Returned("next_prime", n, 0, BigComplex_zero, BigComplex_zero,
                 BigInt_next_prime(n))

CallFactorial ==
    /\ op = "none"
    /\ \E n \in (-MaxNeg)..MaxFact :
        Returned("factorial", n, 0, BigComplex_zero, BigComplex_zero,
                 BigInt_factorial(n))

\* a / b and a % b on the same operands; both abort on a zero divisor.
CallDivRem ==
    /\ op = "none"
    /\ \E a \in (-MaxDiv)..MaxDiv, b \in (-MaxDiv)..MaxDiv :
        Returned("div_rem", a, b, BigComplex_zero, BigComplex_zero,
                 IF b = 0 THEN Panic
                 ELSE [quot |-> BigInt_div(a, b), rem |-> BigInt_rem(a, b)])

\* a / b on BigComplex values
CallComplexDiv ==
    /\ op = "none"
    /\ \E a \in ComplexRange(MaxC), b \in ComplexRange(MaxC) :
        Returned("complex_div", 0, 0, a, b, BigComplex_div(a, b))

\* &a / &b
CallComplexDivRef ==
    /\ op = "none"
    /\ \E a \in ComplexRange(MaxC), b \in ComplexRange(MaxC) :
        Returned("complex_div_ref", 0, 0, a, b, BigComplex_div_ref(a, b))

CallScale ==
    /\ op = "none"
    /\ \E a \in ComplexRange(MaxC), k \in (-MaxK)..MaxK :
        Returned("scale", 0, k, a, BigComplex_zero, BigComplex_scale(a, k))

\* scaled.div_exact(&k) on the value the preceding scale(&k) returned
DivExactScaled ==
    /\ op = "scale"
    /\ Returned("scale_div_exact", 0, arg, z, BigComplex_zero,
                BigComplex_div_exact(ret, arg))

CallDivExact ==
    /\ op = "none"
    /\ \E a \in ComplexRange(MaxDiv), d \in (-MaxK)..MaxK :
        Returned("div_exact", 0, d, a, BigComplex_zero, BigComplex_div_exact(a, d))

CallPow ==
    /\ op = "none"
    /\ \E a \in ComplexRange(PowC), n \in 0..MaxExp :
        Returned("pow", 0, n, a, BigComplex_zero, BigComplex_pow(a, n))

CallConjugate ==
    /\ op = "none"
    /\ \E a \in ComplexRange(MaxC) :
        Returned("conjugate", 0, 0, a, BigComplex_zero, BigComplex_conjugate(a))

\* .conjugate() on the value the preceding conjugate() returned
ConjugateAgain ==
    /\ op = "conjugate"
    /\ Returned("conjugate_conjugate", 0, 0, z, BigComplex_zero,
                BigComplex_conjugate(ret))

\* &z * &z_conj on the value z_conj the preceding conjugate() returned,
\* and z.magnitude_squared()
MulConjugate ==
    /\ op = "conjugate"
    /\ Returned("mul_conjugate", 0, 0, z, BigComplex_zero,
                [product |-> BigComplex_mul_ref(z, ret),
                 magnitude_squared |-> BigComplex_magnitude_squared(z)])

\* a.rotate_90(); arg counts the rotations applied to a so far
CallRotate90 ==
    /\ op = "none"
    /\ \E a \in ComplexRange(MaxC) :
        Returned("rotate_90", 0, 1, a, BigComplex_zero, BigComplex_rotate_90(a))

\* .rotate_90() on the value the preceding rotate_90() returned
Rotate90Again ==
    /\ op = "rotate_90"
    /\ arg < 4
    /\ Returned("rotate_90", 0, arg + 1, z, BigComplex_zero,
                BigComplex_rotate_90(ret))

CallRotate180 ==
    /\ op = "none"
    /\ \E a \in ComplexRange(MaxC) :
        Returned("rotate_180", 0, 0, a, BigComplex_zero, BigComplex_rotate_180(a))

CallRotate270 ==
    /\ op = "none"
    /\ \E a \in ComplexRange(MaxC) :
        Returned("rotate_270", 0, 0, a, BigComplex_zero, BigComplex_rotate_270(a))

\* BigComplex::from_polar(&r, k): self holds r, arg the angle code
CallFromPolar ==
    /\ op = "none"
    /\ \E r \in (-MaxC)..MaxC, k \in (-MaxTheta)..MaxTheta :
        Returned("from_polar", r, k, BigComplex_zero, BigComplex_zero,
                 BigComplex_from_polar(r, k))

CallArgQuadrant ==
    /\ op = "none"
    /\ \E a \in ComplexRange(MaxC) :
        Returned("arg_quadrant", 0, 0, a, BigComplex_zero, BigComplex_arg_quadrant(a))

CallNthRoot ==
    /\ op = "none"
    /\ \E a \in ComplexRange(MaxDiv), n \in 0..MaxRootN :
        Returned("nth_root", 0, n, a, BigComplex_zero, BigComplex_nth_root(a, n))

CallLnApprox ==
    /\ op = "none"
    /\ \E re \in (-MaxNeg)..MaxLn, im \in (-MaxNeg)..MaxNeg :
        Returned("ln_approx", 0, 0, BigComplex_new(re, im), BigComplex_zero,
                 BigComplex_ln_approx(BigComplex_new(re, im)))

\* ret holds the returned value and the number of loop rounds the call ran
CallExpApprox ==
    /\ op = "none"
    /\ \E re \in (-MaxExpArg)..MaxExpArg, im \in (-MaxNeg)..MaxNeg :
        Returned("exp_approx", 0, 0, BigComplex_new(re, im), BigComplex_zero,
                 BigComplex_exp_approx(BigComplex_new(re, im)))

\* format!("{}", a): ret holds the rendered text
CallToString ==
    /\ op = "none"
    /\ \E a \in ComplexRange(MaxShow) :
        Returned("to_string", 0, 0, a, BigComplex_zero, BigComplex_to_string(a))

\* BigInt::from_string(s): arg holds s
CallFromString ==
    /\ op = "none"
    /\ \E n \in 0..MaxLen : \E s \in [1..n -> InputChars] :
        Returned("from_string", 0, s, BigComplex_zero, BigComplex_zero,
                 BigInt_from_string(s))

\* v.next_power_of_two()
CallNextPowerOfTwo ==
    /\ op = "none"
    /\ \E v \in (-MaxNeg)..MaxBitsIn :
        Returned("next_power_of_two", v, 0, BigComplex_zero, BigComplex_zero,
                 BigInt_next_power_of_two(v))

\* The receivers of the bit-level queries.
BitQueryRange == (-MaxBitsIn)..MaxBitsIn

\* v.bit_length()
CallBitLength ==
    /\ op = "none"
    /\ \E v \in BitQueryRange :
        Returned("bit_length", v, 0, BigComplex_zero, BigComplex_zero,
                 BigInt_bit_length(v))

\* v.count_ones()
CallCountOnes ==
    /\ op = "none"
    /\ \E v \in BitQueryRange :
        Returned("count_ones", v, 0, BigComplex_zero, BigComplex_zero,
                 BigInt_count_ones(v))

\* v.trailing_zeros()
CallTrailingZeros ==
    /\ op = "none"
    /\ \E v \in BitQueryRange :
        Returned("trailing_zeros", v, 0, BigComplex_zero, BigComplex_zero,
                 BigInt_trailing_zeros(v))

\* v.is_power_of_two()
CallIsPowerOfTwo ==
    /\ op = "none"
    /\ \E v \in BitQueryRange :
        Returned("is_power_of_two", v, 0, BigComplex_zero, BigComplex_zero,
                 BigInt_is_power_of_two(v))

\* z * w
CallMul ==
    /\ op = "none"
    /\ \E a \in ComplexRange(MaxC), b \in ComplexRange(MaxC) :
        Returned("mul", 0, 0, a, b, BigComplex_mul(a, b))

\* product / w on the product the preceding multiplication returned
DivProduct ==
    /\ op = "mul"
    /\ Returned("mul_div", 0, 0, z, w, BigComplex_div(ret, w))

\* p.arg_quadrant() on the value p the preceding from_polar returned; a
\* from_polar that aborted returned nothing to call it on
ArgQuadrantOfPolar ==
    /\ op = "from_polar"
    /\ ret # Panic
    /\ Returned("polar_quadrant", self, arg, ret, BigComplex_zero,
                BigComplex_arg_quadrant(ret))

\* z.rotate_90().arg_quadrant() after z.arg_quadrant(): w is the rotated
\* value
ArgQuadrantOfRotated ==
    /\ op = "arg_quadrant"
    /\ Returned("rotated_quadrant", 0, 0, z, BigComplex_rotate_90(z),
                [before |-> ret,
                 after |-> BigComplex_arg_quadrant(BigComplex_rotate_90(z))])

\* a.ln_approx(), stepped: entry of the function up to the first evaluation
\* of the loop condition, or its return when the loop is not reached.
CallLnApproxStepped ==
    /\ op = "none"
    /\ \E re \in (-MaxNeg)..MaxLn, im \in (-MaxNeg)..MaxNeg :
        LET a == BigComplex_new(re, im)
        IN  IF BigComplex_is_zero(a)
            THEN Returned("ln_approx_stepped", 0, 0, a, BigComplex_zero, None)
            ELSE IF BigComplex_is_real(a) /\ BigInt_is_positive(a.real)
            THEN IF a.real = 1
                 THEN Returned("ln_approx_stepped", 0, 0, a, BigComplex_zero,
                               Some(BigComplex_zero))
                 ELSE /\ op' = "ln_approx_stepped"
                      /\ pc' = "ln_loop"
                      /\ self' = 0
                      /\ arg' = 0
                      /\ z' = a
                      /\ w' = BigComplex_zero
                      /\ low' = 0
                      /\ high' = 0
                      /\ approx' = 0
                      /\ temp' = a.real
                      /\ rounds' = 0
                      /\ ret' = Pending
            ELSE Returned("ln_approx_stepped", 0, 0, a, BigComplex_zero,
                          Some(BigComplex_new(0, 1)))

\* One evaluation of `temp > BigInt::one()` and the iteration or the return
\* after it.
LnStep ==
    /\ pc = "ln_loop"
    /\ IF temp > 1
       THEN /\ temp' = BigInt_div(temp, 2)
            /\ approx' = approx + 1
            /\ rounds' = rounds + 1
            /\ UNCHANGED <<pc, ret>>
       ELSE /\ pc' = "idle"
            /\ ret' = Some(BigComplex_new(approx, 0))
            /\ UNCHANGED <<approx, temp, rounds>>
    /\ UNCHANGED <<op, self, arg, z, w, low, high>>

\* The caller drops the returned value and is ready for its next call.
Drop ==
    /\ pc = "idle"
    /\ op # "none"
    /\ Returned("none", 0, 0, BigComplex_zero, BigComplex_zero, Pending)

Next ==
    \/ CallSqrt
    \/ SqrtStep
    \/ CallIsPrime
    \/ CallNextPrime
    \/ CallFactorial
    \/ CallDivRem
    \/ CallComplexDiv
    \/ CallComplexDivRef
    \/ CallScale
    \/ DivExactScaled
    \/ CallDivExact
    \/ CallPow
    \/ CallConjugate
    \/ ConjugateAgain
    \/ MulConjugate
    \/ CallRotate90
    \/ Rotate90Again
    \/ CallRotate180
    \/ CallRotate270
    \/ CallFromPolar
    \/ CallArgQuadrant
    \/ CallNthRoot
    \/ CallLnApprox
    \/ CallExpApprox
    \/ CallToString
    \/ CallFromString
    \/ CallNextPowerOfTwo
    \/ CallBitLength
    \/ CallCountOnes
    \/ CallTrailingZeros
    \/ CallIsPowerOfTwo
    \/ CallMul
    \/ DivProduct
    \/ ArgQuadrantOfPolar
    \/ ArgQuadrantOfRotated
    \/ CallLnApproxStepped
    \/ LnStep
    \/ Drop

Spec == Init /\ [][Next]_vars

(***************************************************************************)
(* Properties of the Integer Engine.                                        *)
(***************************************************************************)

\* C1: BigInt::sqrt returns, for every self >= 0, Some(r) with
\* r*r <= self < (r+1)*(r+1), whether the loop ends on an exact match or on
\* low > high; for every self < 0 it returns None.
C1_SqrtIsFloorRoot ==
    (op = "sqrt" /\ pc = "idle") =>
        IF self >= 0
        THEN /\ ret.tag = "Some"
             /\ ret.val * ret.val <= self
             /\ self < (ret.val + 1) * (ret.val + 1)
        ELSE ret = None

\* A call on a non-square that left the loop with low > high.
C1_Witness ==
    /\ op = "sqrt"
    /\ pc = "idle"
    /\ self > 100
    /\ low > high
    /\ ret.tag = "Some"
    /\ ret.val * ret.val < self

\* n has no divisor d with 1 < d < n (and n > 1).
BruteForcePrime(n) == n > 1 /\ \A d \in 2..(n - 1) : n % d # 0

\* C2: is_prime agrees with brute-force trial division on 0..PrimeMax and
\* is false for every n <= 1, negative n included.
C2_IsPrimeAgreesWithTrialDivision ==
    op = "is_prime" =>
        /\ ret = BruteForcePrime(self)
        /\ (self <= 1 => ret = FALSE)

\* The square of an odd prime, which only the last trial divisor rejects.
C2_Witness ==
    /\ op = "is_prime"
    /\ self = 9409
    /\ ret = FALSE

\* C3: for n > 2 next_prime returns the smallest prime strictly greater
\* than n; for every n <= 2 it returns 2.
C3_NextPrimeIsLeastPrimeAbove ==
    op = "next_prime" =>
        IF self > 2
        THEN /\ BruteForcePrime(ret)
             /\ ret > self
             /\ \A q \in (self + 1)..(ret - 1) : ~BruteForcePrime(q)
        ELSE ret = 2

\* A prime receiver followed by a gap of several composites.
C3_Witness ==
    /\ op = "next_prime"
    /\ self = 113
    /\ ret = 127

\* C4: factorial is None for negative input, Some(1) for 0, and for
\* n >= 1 factorial(n) = n * factorial(n-1).
C4_FactorialRecurrence ==
    op = "factorial" =>
        /\ (self < 0 => ret = None)
        /\ (self = 0 => ret = Some(1))
        /\ (self >= 1 =>
                /\ BigInt_factorial(self - 1).tag = "Some"
                /\ ret = Some(self * BigInt_factorial(self - 1).val))

C4_Witness ==
    /\ op = "factorial"
    /\ self = 6
    /\ ret = Some(720)

\* C5: for every a and b # 0: a = b*(a/b) + (a%b), |a%b| < |b|, and a%b is
\* zero or has the sign of a.
C5_DivRemTruncate ==
    (op = "div_rem" /\ arg # 0) =>
        /\ self = arg * ret.quot + ret.rem
        /\ Abs(ret.rem) < Abs(arg)
        /\ (ret.rem = 0 \/ (ret.rem < 0) = (self < 0))

\* -7 / 2 = -3 and -7 % 2 = -1
C5_Witness ==
    /\ op = "div_rem"
    /\ self = -7
    /\ arg = 2
    /\ ret = [quot |-> -3, rem |-> -1]

(***************************************************************************)
(* Properties of the Complex Layer.                                         *)
(***************************************************************************)

\* q is the quotient of x by y # 0 rounded toward zero: the remainder
\* x - y*q is smaller in magnitude than y and is zero or has the sign of x.
IsTruncQuot(x, y, q) ==
    LET r == x - y * q
    IN  Abs(r) < Abs(y) /\ (r = 0 \/ (r < 0) = (x < 0))

\* C6: (a+bi)/(c+di), by value and by reference, aborts iff c = 0 and
\* d = 0; otherwise it returns (trunc((ac+bd)/(cc+dd)), trunc((bc-ad)/(cc+dd))).
C6_ComplexDivPanicsIffZeroDivisor ==
    op \in {"complex_div", "complex_div_ref"} =>
        LET den == w.real * w.real + w.imag * w.imag
        IN  /\ (ret = Panic) <=> (w.real = 0 /\ w.imag = 0)
            /\ ~(w.real = 0 /\ w.imag = 0) =>
                   /\ DOMAIN ret = {"real", "imag"}
                   /\ IsTruncQuot(z.real * w.real + z.imag * w.imag, den, ret.real)
                   /\ IsTruncQuot(z.imag * w.real - z.real * w.imag, den, ret.imag)

\* (1-2i)/(1+2i): both numerators, -3 and -4, are negative and smaller in
\* magnitude than the denominator 5, so truncation gives 0+0i.
C6_Witness ==
    /\ op = "complex_div_ref"
    /\ z = BigComplex_new(1, -2)
    /\ w = BigComplex_new(1, 2)
    /\ ret = BigComplex_new(0, 0)

\* C7: div_exact(scale(z, k), k) = Some(z) for every z and every k # 0.
C7_DivExactUndoesScale ==
    (op = "scale_div_exact" /\ arg # 0) => ret = Some(z)

C7_Witness ==
    /\ op = "scale_div_exact"
    /\ arg = -3
    /\ z = BigComplex_new(2, -3)
    /\ ret = Some(z)

\* d divides x with zero remainder.
Divides(d, x) == \E q \in (-Abs(x))..Abs(x) : q * d = x

\* C8: div_exact(z, d) is Some(w) iff d # 0 and d divides both components
\* of z; then scale(w, d) = z; a zero divisor gives None and no abort.
C8_DivExactIffDivides ==
    op = "div_exact" =>
        /\ ret.tag \in {"Some", "None"}
        /\ (ret.tag = "Some") <=>
               (arg # 0 /\ Divides(arg, z.real) /\ Divides(arg, z.imag))
        /\ (ret.tag = "Some" => BigComplex_scale(ret.val, arg) = z)
        /\ (arg = 0 => ret = None)

C8_Witness ==
    /\ op = "div_exact"
    /\ arg = -3
    /\ z = BigComplex_new(-6, 9)
    /\ ret = Some(BigComplex_new(2, -3))

\* a * a * ... * a (n factors, n >= 1) by plain repeated multiplication.
RECURSIVE RepeatedProduct(_, _)
RepeatedProduct(a, n) ==
    IF n = 1 THEN a ELSE BigComplex_mul(RepeatedProduct(a, n - 1), a)

\* C9: pow(0) = 1+0i for every z, zero included; for n >= 1 pow(n) is the
\* n-fold product of z, and pow(n) = pow(n-1) * z.
C9_PowIsRepeatedProduct ==
    op = "pow" =>
        /\ (arg = 0 => ret = BigComplex_one)
        /\ (arg >= 1 =>
                /\ ret = RepeatedProduct(z, arg)
                /\ ret = BigComplex_mul(BigComplex_pow(z, arg - 1), z))

\* (1+i)^7 = 8-8i: exp - 1 = 6 = 110b takes three loop rounds, two of them
\* multiplying into the result.
C9_Witness ==
    /\ op = "pow"
    /\ arg = 7
    /\ z = BigComplex_new(1, 1)
    /\ ret = BigComplex_new(8, -8)

\* C10: conjugate(conjugate(z)) = z, and z * conjugate(z) has imaginary
\* component 0 and real component magnitude_squared(z).
C10_ConjugateInvolutionAndNorm ==
    /\ op = "conjugate_conjugate" => ret = z
    /\ op = "mul_conjugate" =>
           /\ ret.product.imag = 0
           /\ ret.product.real = ret.magnitude_squared

C10_Witness ==
    /\ op = "mul_conjugate"
    /\ z = BigComplex_new(3, -2)
    /\ ret.product = BigComplex_new(13, 0)
    /\ ret.magnitude_squared = 13

\* C11: rotate_90(z) = z * (0+1i), rotate_180(z) = z * (-1+0i),
\* rotate_270(z) = z * (0-1i) with the complex multiplication operator, and
\* rotate_90 applied four times returns z.
C11_RotationsAreMultiplications ==
    /\ (op = "rotate_90" /\ arg = 1) => ret = BigComplex_mul(z, BigComplex_new(0, 1))
    /\ (op = "rotate_90" /\ arg = 4) => ret = z
    /\ op = "rotate_180" => ret = BigComplex_mul(z, BigComplex_new(-1, 0))
    /\ op = "rotate_270" => ret = BigComplex_mul(z, BigComplex_new(0, -1))

\* The fourth rotate_90 in a row, on a value with two non-zero components.
C11_Witness ==
    /\ op = "rotate_90"
    /\ arg = 4
    /\ z = BigComplex_new(3, -2)
    /\ ret = BigComplex_new(3, -2)

\* The value for an angle code in {0, 1, 2, 3}.
PolarValue(r, code) ==
    CASE code = 0 -> BigComplex_new(r, 0)
      [] code = 1 -> BigComplex_new(0, r)
      [] code = 2 -> BigComplex_new(-r, 0)
      [] code = 3 -> BigComplex_new(0, -r)

\* C12: from_polar(r, k) returns, without aborting, the value for the code
\* k mod 4 in {0,1,2,3}, for every r and every i32 k, negative k included.
C12_FromPolarTakesCodeModulo4 ==
    op = "from_polar" =>
        /\ ret # Panic
        /\ ret = PolarValue(self, arg % 4)

\* C13: arg_quadrant maps the signs (+,+), (-,+), (-,-), (+,-) of
\* (real, imag) to Some(0), Some(1), Some(2), Some(3); zero gives None.
C13_ArgQuadrantBySigns ==
    op = "arg_quadrant" =>
        /\ (z.real = 0 /\ z.imag = 0) => ret = None
        /\ ~(z.real = 0 /\ z.imag = 0) => (ret.tag = "Some" /\ ret.val \in 0..3)
        /\ (z.real > 0 /\ z.imag > 0) => ret = Some(0)
        /\ (z.real < 0 /\ z.imag > 0) => ret = Some(1)
        /\ (z.real < 0 /\ z.imag < 0) => ret = Some(2)
        /\ (z.real > 0 /\ z.imag < 0) => ret = Some(3)

C13_Witness ==
    /\ op = "arg_quadrant"
    /\ z = BigComplex_new(3, -2)
    /\ ret = Some(3)

\* x is s*s for some integer s.
IsPerfectSquare(x) == \E s \in 0..x : s * s = x

\* C14 as stated: outside n = 0, the zero input, n = 1, and n = 2 with a
\* real input that is a perfect square or the negative of one, nth_root
\* returns the single-element list [1+0i].
C14_PlaceholderOutsidePerfectSquares ==
    (/\ op = "nth_root"
     /\ arg # 0
     /\ ~(z.real = 0 /\ z.imag = 0)
     /\ arg # 1
     /\ ~(arg = 2 /\ z.imag = 0 /\ IsPerfectSquare(Abs(z.real))))
    => ret = <<BigComplex_new(1, 0)>>

\* C14 amended: outside n = 0, the zero input, n = 1, and n = 2 with any
\* non-zero real input (a perfect square or not), nth_root returns the
\* single-element list [1+0i].
C14_PlaceholderOutsideRealSquareRoots ==
    (/\ op = "nth_root"
     /\ arg # 0
     /\ ~(z.real = 0 /\ z.imag = 0)
     /\ arg # 1
     /\ ~(arg = 2 /\ z.imag = 0))
    => ret = <<BigComplex_new(1, 0)>>

\* A square root asked of a value off the real axis.
C14_Witness ==
    /\ op = "nth_root"
    /\ arg = 2
    /\ z = BigComplex_new(4, 3)
    /\ ret = <<BigComplex_new(1, 0)>>

\* C15: nth_root(0) is empty for every value; for n >= 1 zero gives [0];
\* for non-zero z nth_root(1) = [z]; for n = 2 and a real input s*s
\* (resp. -(s*s)) with s > 0 the result is [s, -s] (resp. [s*i, -s*i]) and
\* each element squared is the input.
C15_NthRootDefinedCases ==
    op = "nth_root" =>
        /\ arg = 0 => ret = << >>
        /\ (arg >= 1 /\ z = BigComplex_zero) => ret = <<BigComplex_zero>>
        /\ (arg = 1 /\ z # BigComplex_zero) => ret = <<z>>
        /\ \A s \in 1..MaxDiv :
               /\ (arg = 2 /\ z = BigComplex_new(s * s, 0)) =>
                      /\ ret = <<BigComplex_new(s, 0), BigComplex_new(-s, 0)>>
                      /\ \A i \in 1..2 : BigComplex_mul(ret[i], ret[i]) = z
               /\ (arg = 2 /\ z = BigComplex_new(-(s * s), 0)) =>
                      /\ ret = <<BigComplex_new(0, s), BigComplex_new(0, -s)>>
                      /\ \A i \in 1..2 : BigComplex_mul(ret[i], ret[i]) = z

\* The two square roots of -9.
C15_Witness ==
    /\ op = "nth_root"
    /\ arg = 2
    /\ z = BigComplex_new(-9, 0)
    /\ ret = <<BigComplex_new(0, 3), BigComplex_new(0, -3)>>

\* The number of truncating halvings x := x / 2 needed until x <= 1.
RECURSIVE Halvings(_)
Halvings(x) == IF x <= 1 THEN 0 ELSE 1 + Halvings(x \div 2)

\* C16: ln_approx is None for zero; for a real x > 0 it is Some(c + 0i)
\* with c the number of halvings of x down to <= 1; for every other input
\* it is Some(0 + 1i).
C16_LnApproxCountsHalvings ==
    op = "ln_approx" =>
        /\ (z.real = 0 /\ z.imag = 0) => ret = None
        /\ (z.imag = 0 /\ z.real > 0) =>
               ret = Some(BigComplex_new(Halvings(z.real), 0))
        /\ (z.imag # 0 \/ z.real < 0) => ret = Some(BigComplex_new(0, 1))
        /\ z = BigComplex_new(1, 0) => ret = Some(BigComplex_new(0, 0))
        /\ z = BigComplex_new(8, 0) => ret = Some(BigComplex_new(3, 0))

\* 37 -> 18 -> 9 -> 4 -> 2 -> 1: five halvings, three of them truncating.
C16_Witness ==
    /\ op = "ln_approx"
    /\ z = BigComplex_new(37, 0)
    /\ ret = Some(BigComplex_new(5, 0))

\* The quotient of n by k > 0 rounded toward zero.
Trunc(n, k) == CHOOSE q \in (-Abs(n))..Abs(n) : IsTruncQuot(n, k, q)

\* t_0 = 1, t_k = trunc(t_{k-1} * x / k)
RECURSIVE TaylorTerm(_, _)
TaylorTerm(x, k) == IF k = 0 THEN 1 ELSE Trunc(TaylorTerm(x, k - 1) * x, k)

\* The first k in 1..10 with t_k = 0, or 10 if there is none.
LastTerm(x) ==
    IF \E k \in 1..10 : TaylorTerm(x, k) = 0
    THEN CHOOSE k \in 1..10 :
             /\ TaylorTerm(x, k) = 0
             /\ \A j \in 1..(k - 1) : TaylorTerm(x, j) # 0
    ELSE 10

RECURSIVE TaylorSum(_, _)
TaylorSum(x, m) == IF m = 0 THEN 1 ELSE TaylorSum(x, m - 1) + TaylorTerm(x, m)

\* C17: exp_approx is 1+0i for zero, 1+1i for every input with non-zero
\* imaginary part, and for a non-zero real x it is s + 0i with
\* s = 1 + t_1 + ... + t_m; the loop runs at most 10 rounds and never
\* divides by zero.
C17_ExpApproxTaylorSum ==
    op = "exp_approx" =>
        /\ ret.value # Panic
        /\ ret.rounds <= 10
        /\ (z.real = 0 /\ z.imag = 0) => ret.value = BigComplex_new(1, 0)
        /\ z.imag # 0 => ret.value = BigComplex_new(1, 1)
        /\ (z.imag = 0 /\ z.real # 0) =>
               /\ ret.rounds = LastTerm(z.real)
               /\ ret.value = BigComplex_new(TaylorSum(z.real, LastTerm(z.real)), 0)

\* x = -5: the terms -5, 12, -20, 25, -25, 20, -14, 8, -4, 2 are all
\* non-zero, so the loop runs its ten rounds; with the leading 1 they sum to 0.
C17_Witness ==
    /\ op = "exp_approx"
    /\ z = BigComplex_new(-5, 0)
    /\ ret.rounds = 10
    /\ ret.value = BigComplex_new(0, 0)

\* C18: Display renders (re, im) as: decimal re when im = 0; for re = 0 and
\* im # 0, "i" for im = 1, "-i" for im = -1, else decimal im then "i"; when
\* both are non-zero, decimal re, "+" only if im > 0, decimal im, "i".
C18_DisplayContract ==
    op = "to_string" =>
        /\ z.imag = 0 => ret = BigInt_to_string(z.real)
        /\ (z.real = 0 /\ z.imag = 1) => ret = <<"i">>
        /\ (z.real = 0 /\ z.imag = -1) => ret = <<"-", "i">>
        /\ (z.real = 0 /\ z.imag \notin {-1, 0, 1}) =>
               ret = BigInt_to_string(z.imag) \o <<"i">>
        /\ (z.real # 0 /\ z.imag > 0) =>
               ret = BigInt_to_string(z.real) \o <<"+">> \o BigInt_to_string(z.imag) \o <<"i">>
        /\ (z.real # 0 /\ z.imag < 0) =>
               ret = BigInt_to_string(z.real) \o BigInt_to_string(z.imag) \o <<"i">>
        /\ z = BigComplex_new(0, 0) => ret = <<"0">>
        /\ z = BigComplex_new(5, -3) => ret = <<"5", "-", "3", "i">>
        /\ z = BigComplex_new(-12, 1) => ret = <<"-", "1", "2", "+", "1", "i">>

\* 5-3i renders "5-3i".
C18_Witness ==
    /\ op = "to_string"
    /\ z = BigComplex_new(5, -3)
    /\ ret = <<"5", "-", "3", "i">>

\* An optional leading '-' followed by one or more decimal digits.
IsMinusThenDigits(s) ==
    LET body == IF StartsWith(s, "-") THEN Tail(s) ELSE s
    IN  Len(body) >= 1 /\ \A i \in 1..Len(body) : IsDigit(body[i])

\* C19: from_string accepts exactly the strings made of an
\* optional leading '-' followed by one or more decimal digits, and returns
\* None for every other string.
C19_AcceptsExactlyMinusThenDigits ==
    op = "from_string" =>
        /\ ret.tag \in {"Some", "None"}
        /\ (ret.tag = "Some") <=> IsMinusThenDigits(arg)

\* q is 1 doubled some number of times.
RECURSIVE IsPowerOfTwo(_)
IsPowerOfTwo(q) ==
    IF q <= 0 THEN FALSE
    ELSE IF q = 1 THEN TRUE
    ELSE q % 2 = 0 /\ IsPowerOfTwo(q \div 2)

\* C20: next_power_of_two returns a power of two p >= v with no power of two
\* q such that v <= q < p; every v <= 1 gives 1, every exact power of two
\* gives itself, and every other v > 1 gives p = 2^bit_length(v), which is
\* the power of two with p/2 <= v < p.
C20_NextPowerOfTwoIsSmallest ==
    op = "next_power_of_two" =>
        /\ IsPowerOfTwo(ret)
        /\ ret >= self
        /\ \A q \in 1..(ret - 1) : ~(IsPowerOfTwo(q) /\ self <= q)
        /\ self <= 1 => ret = 1
        /\ IsPowerOfTwo(self) => ret = self
        /\ (self > 1 /\ ~IsPowerOfTwo(self)) =>
               /\ ret = BigInt_pow(2, BigInt_bit_length(self))
               /\ ret \div 2 <= self
               /\ self < ret

\* The two-byte value 257, not a power of two, goes up to 512.
C20_Witness ==
    /\ op = "next_power_of_two"
    /\ self = 257
    /\ ret = 512

\* The number of 1 bits in the binary expansion of m >= 0.
RECURSIVE NumberOfOneBits(_)
NumberOfOneBits(m) == IF m = 0 THEN 0 ELSE (m % 2) + NumberOfOneBits(m \div 2)

\* C21: bit_length(0) = 0 and for v # 0, 2^(bit_length(v)-1) <= |v| <
\* 2^bit_length(v); count_ones(v) is the number of 1 bits of v for v >= 0
\* and 0 for v < 0; trailing_zeros(0) is None and for v # 0 it is Some(k), k
\* the largest exponent with 2^k dividing |v|; is_power_of_two(v) is true
\* iff v > 0 and v has exactly one 1 bit.
C21_BitQueriesAgreeWithBinaryExpansion ==
    /\ op = "bit_length" =>
           IF self = 0 THEN ret = 0
           ELSE /\ ret >= 1
                /\ BigInt_pow(2, ret - 1) <= Abs(self)
                /\ Abs(self) < BigInt_pow(2, ret)
    /\ op = "count_ones" =>
           ret = IF self >= 0 THEN NumberOfOneBits(self) ELSE 0
    /\ op = "trailing_zeros" =>
           IF self = 0 THEN ret = None
           ELSE /\ ret.tag = "Some"
                /\ ret.val >= 0
                /\ Abs(self) % BigInt_pow(2, ret.val) = 0
                /\ Abs(self) % BigInt_pow(2, ret.val + 1) # 0
    /\ op = "is_power_of_two" =>
           (ret <=> (self > 0 /\ NumberOfOneBits(self) = 1))

\* -256 has a zero low byte: eight trailing zeros.
C21_Witness ==
    /\ op = "trailing_zeros"
    /\ self = -256
    /\ ret = Some(8)

\* The floor of the square root of n >= 0.
FloorSqrt(n) == CHOOSE r \in 0..n : r * r <= n /\ n < (r + 1) * (r + 1)

\* C22 as stated: whenever the loop condition `low <= high` of sqrt is
\* evaluated, the floor square root of the receiver lies in [low, high].
C22_FloorRootWithinLowHigh ==
    pc = "sqrt_loop" =>
        /\ low <= FloorSqrt(self)
        /\ FloorSqrt(self) <= high

\* C22 amended: whenever the loop condition `low <= high` of sqrt is
\* evaluated, every value below low has a square smaller than the receiver
\* and every value above high has a square greater than it, so the floor
\* square root lies in [low - 1, high]; it lies in [low, high] when the
\* receiver is a perfect square.
C22_FloorRootWithinLowMinusOneHigh ==
    pc = "sqrt_loop" =>
        /\ 0 <= low
        /\ high <= self
        /\ \A x \in 0..(low - 1) : x * x < self
        /\ \A x \in (high + 1)..self : x * x > self
        /\ low - 1 <= FloorSqrt(self)
        /\ FloorSqrt(self) <= high
        /\ FloorSqrt(self) * FloorSqrt(self) = self => low <= FloorSqrt(self)

\* The search on 8 reaches low = high = 3 after the update low = mid + 1 with
\* mid = 2: the floor root 2 is below low.
C22_Witness ==
    /\ pc = "sqrt_loop"
    /\ self = 8
    /\ low = 3
    /\ high = 3

\* C23: for every complex z and every non-zero complex w, (z * w) / w = z,
\* by value and by reference.
C23_DivUndoesMul ==
    (op = "mul_div" /\ ~BigComplex_is_zero(w)) =>
        /\ ret = z
        /\ BigComplex_div_ref(BigComplex_mul_ref(z, w), w) = z

\* (2-3i)(1+2i) = 8+i, and (8+i)/(1+2i) gives 2-3i back.
C23_Witness ==
    /\ op = "mul_div"
    /\ z = BigComplex_new(2, -3)
    /\ w = BigComplex_new(1, 2)
    /\ ret = BigComplex_new(2, -3)

\* C24: on a non-zero value with a zero component arg_quadrant takes the
\* zero component as not positive: (re > 0, 0) gives Some(3), (0, im > 0)
\* gives Some(1), (re < 0, 0) and (0, im < 0) give Some(2); so for r > 0 the
\* quadrant of from_polar(r, k) is 3, 1, 2, 2 for k = 0, 1, 2, 3; and the
\* quadrant of rotate_90(z) is (quadrant of z + 1) mod 4 for every z with
\* two non-zero components.
C24_ArgQuadrantOnAxes ==
    /\ op = "arg_quadrant" =>
           /\ (z.real > 0 /\ z.imag = 0) => ret = Some(3)
           /\ (z.real = 0 /\ z.imag > 0) => ret = Some(1)
           /\ (z.real < 0 /\ z.imag = 0) => ret = Some(2)
           /\ (z.real = 0 /\ z.imag < 0) => ret = Some(2)
    /\ (op = "polar_quadrant" /\ self > 0 /\ arg \in 0..3) =>
           ret = Some(<<3, 1, 2, 2>>[arg + 1])
    /\ (op = "rotated_quadrant" /\ z.real # 0 /\ z.imag # 0) =>
           /\ ret.before.tag = "Some"
           /\ ret.after = Some((ret.before.val + 1) % 4)

\* from_polar(2, 3) is -2i, whose quadrant is 2.
C24_Witness ==
    /\ op = "polar_quadrant"
    /\ self = 2
    /\ arg = 3
    /\ z = BigComplex_new(0, -2)
    /\ ret = Some(2)

\* C25: for every real x > 0, ln_approx(x + 0i) is Some(c + 0i) with
\* c = bit_length(x) - 1, i.e. 2^c <= x < 2^(c+1), and the halving loop ends
\* after exactly c iterations: while it runs it has made at most c
\* iterations, and it goes on exactly when it has made fewer than c.
C25_LnApproxIsBitLengthMinusOne ==
    /\ (op = "ln_approx" /\ z.imag = 0 /\ z.real > 0) =>
           ret = Some(BigComplex_new(BigInt_bit_length(z.real) - 1, 0))
    /\ (op = "ln_approx_stepped" /\ pc = "idle" /\ z.imag = 0 /\ z.real > 0) =>
           /\ ret = Some(BigComplex_new(BigInt_bit_length(z.real) - 1, 0))
           /\ rounds = BigInt_bit_length(z.real) - 1
           /\ BigInt_pow(2, ret.val.real) <= z.real
           /\ z.real < BigInt_pow(2, ret.val.real + 1)
    /\ pc = "ln_loop" =>
           /\ rounds = approx
           /\ rounds <= BigInt_bit_length(z.real) - 1
           /\ (temp > 1) <=> (rounds < BigInt_bit_length(z.real) - 1)

\* 37 has six bits: the loop has ended after five iterations with 5 + 0i.
C25_Witness ==
    /\ op = "ln_approx_stepped"
    /\ pc = "idle"
    /\ z = BigComplex_new(37, 0)
    /\ rounds = 5
    /\ ret = Some(BigComplex_new(5, 0))

====
